---------------------------- MODULE Spec2Model ----------------------------
(* PGN -> Polyglot book builder (src/parser/parser.cpp).                   *)
(*                                                                         *)
(* The module models                                                       *)
(*   - the byte classifier and the state/token transition table            *)
(*     (Parser::init),                                                     *)
(*   - the byte-at-a-time driver parse_pgn, one action per Step handler,   *)
(*   - the SAN replayer parse_game,                                        *)
(*   - the post-processing of Parser::make_book (full sort, per-key        *)
(*     frequency pass) and write_poly_file,                                *)
(*   - the book probe probe_key on a written file.                         *)
(*                                                                         *)
(* Bytes are one-character strings; the zero byte is NUL.  Offsets into    *)
(* the mapped input are 0-based as in the source (data - baseAddress).     *)
EXTENDS Integers, Sequences, FiniteSets, TLC

VARIABLES
    input,       \* the mapped PGN file, a sequence of bytes
    chunks,      \* ghost: the lexical pieces the input was assembled from
    data,        \* cursor, offset of the byte the loop looks at
    state,       \* current row of ToStep
    stateStack,  \* Step* stateStack[16], entries below stateSp
    fen,         \* bytes of char fen[256] below fenEnd
    moves,       \* bytes of char moves[8192] below end
    movesSrc,    \* ghost: input offset each byte of moves was written at
    curMove,     \* offset in moves of the token in progress
    moveCnt, gameCnt, gameOfs, result, stm,
    kTable,      \* the record table (std::vector<PolyEntry>)
    calls,       \* ghost: one entry per invocation of parse_game
    diag,        \* ghost: number of diagnostics written to std::cerr
    pc,          \* "parse" | "done" | "fault" | "sorted" | "written" |
                 \* "emit" | "probed"
    file,        \* the records written by write_poly_file
    full,        \* the `full` option of the book command
    probe,       \* arguments of probe_key: ofs (as record index), limit, skip
    json_moves   \* the entries probe_key appends to json_moves

vars == <<input, chunks, data, state, stateStack, fen, moves, movesSrc,
          curMove, moveCnt, gameCnt, gameOfs, result, stm, kTable, calls,
          diag, pc, file, full, probe, json_moves>>

-----------------------------------------------------------------------------
(* Bounds of the model.                                                    *)

MaxChunks == 3      \* lexical pieces per input
MaxRecs == 4        \* records per table in the post-processing model
KeyMod == 97        \* size of the abstract Zobrist key space

(* Program constants.                                                      *)

StackSize == 16     \* Step* stateStack[16]
FenSize == 256      \* char fen[256]
MovesSize == 8192   \* char moves[1024 * 8]
StatesSize == 1024  \* StateInfo states[1024]
ErrorWindow == 50   \* std::string(data, 50) in error()
WHITE == 0
BLACK == 1
MOVE_NONE == 0
MOVE_NULL == 65
MaxWeight == 65535  \* 0xFFFF
Pow30 == 1073741824 \* 1 << 30

NUL == "<NUL>"

-----------------------------------------------------------------------------
(* Byte classifier: ToToken[256], zero-initialised (T_NONE) and filled in  *)
(* by Parser::init.                                                        *)

ToToken(c) ==
    CASE c \in {"\n", "\r", " ", "\t"} -> "T_SPACES"
      [] c \in {"/", "*"} -> "T_RESULT"
      [] c = "-" -> "T_MINUS"
      [] c = "." -> "T_DOT"
      [] c = "\"" -> "T_QUOTES"
      [] c = "$" -> "T_DOLLAR"
      [] c = "[" -> "T_LEFT_BRACKET"
      [] c = "]" -> "T_RIGHT_BRACKET"
      [] c = "{" -> "T_LEFT_BRACE"
      [] c = "}" -> "T_RIGHT_BRACE"
      [] c = "(" -> "T_LEFT_PARENTHESIS"
      [] c = ")" -> "T_RIGHT_PARENTHESIS"
      [] c = "E" -> "T_EVENT"
      [] c = "0" -> "T_ZERO"
      [] c \in {"1", "2", "3", "4", "5", "6", "7", "8", "9"} -> "T_DIGIT"
      [] c \in {"a", "b", "c", "d", "e", "f", "g", "h",
                "N", "B", "R", "Q", "K", "O", "o"} -> "T_MOVE_HEAD"
      [] c \in {"!", "?", "+", "#"} -> "T_SPACES"
      [] OTHER -> "T_NONE"

(* Transition table ToStep[STATE_NB][TOKEN_NB].  The table is a global, so *)
(* a cell Parser::init does not write holds 0, which is FAIL.              *)

ToStep(s, tk) ==
    CASE s = "HEADER" ->
            (CASE tk = "T_LEFT_BRACKET" -> "OPEN_TAG"
               [] tk = "T_LEFT_BRACE" -> "OPEN_BRACE_COMMENT"
               [] tk = "T_DIGIT" -> "START_MOVE_NUMBER"
               [] tk = "T_ZERO" -> "START_RESULT"
               [] tk = "T_RESULT" -> "START_RESULT"
               [] OTHER -> "CONTINUE")
      [] s = "TAG" ->
            (CASE tk = "T_RIGHT_BRACKET" -> "POP_STATE"
               [] OTHER -> "CONTINUE")
      [] s = "FEN_TAG" ->
            (CASE tk = "T_QUOTES" -> "CLOSE_FEN_TAG"
               [] OTHER -> "READ_FEN")
      [] s = "BRACE_COMMENT" ->
            (CASE tk = "T_RIGHT_BRACE" -> "POP_STATE"
               [] tk = "T_LEFT_BRACKET" -> "TAG_IN_BRACE"
               [] OTHER -> "CONTINUE")
      [] s = "VARIATION" ->
            (CASE tk = "T_RIGHT_PARENTHESIS" -> "POP_STATE"
               [] tk = "T_LEFT_PARENTHESIS" -> "OPEN_VARIATION"
               [] tk = "T_LEFT_BRACE" -> "OPEN_BRACE_COMMENT"
               [] OTHER -> "CONTINUE")
      [] s = "NUMERIC_ANNOTATION_GLYPH" ->
            (CASE tk = "T_ZERO" -> "CONTINUE"
               [] tk = "T_DIGIT" -> "CONTINUE"
               [] OTHER -> "POP_STATE")
      [] s = "NEXT_MOVE" ->
            (CASE tk = "T_LEFT_PARENTHESIS" -> "OPEN_VARIATION"
               [] tk = "T_LEFT_BRACE" -> "OPEN_BRACE_COMMENT"
               [] tk = "T_LEFT_BRACKET" -> "MISSING_RESULT"
               [] tk = "T_DOLLAR" -> "START_NAG"
               [] tk = "T_RESULT" -> "START_RESULT"
               [] tk = "T_ZERO" -> "START_RESULT"
               [] tk = "T_DOT" -> "FAIL"
               [] tk = "T_MOVE_HEAD" -> "FAIL"
               [] tk = "T_MINUS" -> "FAIL"
               [] tk = "T_DIGIT" -> "START_MOVE_NUMBER"
               [] OTHER -> "CONTINUE")
      [] s = "MOVE_NUMBER" ->
            (CASE tk = "T_ZERO" -> "CONTINUE"
               [] tk = "T_DIGIT" -> "CONTINUE"
               [] tk = "T_RESULT" -> "START_RESULT"
               [] tk = "T_MINUS" -> "START_RESULT"
               [] tk = "T_SPACES" -> "START_NEXT_SAN"
               [] tk = "T_DOT" -> "START_NEXT_SAN"
               [] OTHER -> "FAIL")
      [] s = "NEXT_SAN" ->
            (CASE tk = "T_LEFT_PARENTHESIS" -> "OPEN_VARIATION"
               [] tk = "T_LEFT_BRACE" -> "OPEN_BRACE_COMMENT"
               [] tk = "T_LEFT_BRACKET" -> "MISSING_RESULT"
               [] tk = "T_DOLLAR" -> "START_NAG"
               [] tk = "T_RESULT" -> "START_RESULT"
               [] tk = "T_ZERO" -> "CASTLE_OR_RESULT"
               [] tk = "T_DOT" -> "CONTINUE"
               [] tk = "T_DIGIT" -> "START_MOVE_NUMBER"
               [] tk = "T_MOVE_HEAD" -> "START_READ_SAN"
               [] tk = "T_MINUS" -> "START_READ_SAN"
               [] OTHER -> "CONTINUE")
      [] s = "READ_SAN" ->
            (CASE tk = "T_SPACES" -> "END_MOVE"
               [] tk = "T_LEFT_BRACE" -> "OPEN_BRACE_COMMENT"
               [] OTHER -> "READ_MOVE_CHAR")
      [] s = "RESULT" ->
            (CASE tk = "T_SPACES" -> "END_GAME"
               [] OTHER -> "CONTINUE")
      [] s = "SKIP_GAME" ->
            (CASE tk = "T_EVENT" -> "GAME_START"
               [] OTHER -> "CONTINUE")


-----------------------------------------------------------------------------
(* Small helpers on sequences.                                             *)

Last(s) == s[Len(s)]

Front(s) == SubSeq(s, 1, Len(s) - 1)

RECURSIVE Flatten(_)
Flatten(ss) == IF ss = <<>> THEN <<>> ELSE Head(ss) \o Flatten(Tail(ss))

(* C string starting at 0-based offset `from` of buffer b: the bytes up to *)
(* the first NUL, or up to the end of the written part.                    *)
CStr(b, from) ==
    IF \E i \in (from + 1)..Len(b) : b[i] = NUL
    THEN SubSeq(b, from + 1,
                (CHOOSE i \in (from + 1)..Len(b) :
                    b[i] = NUL /\ \A j \in (from + 1)..(i - 1) : b[j] # NUL)
                - 1)
    ELSE SubSeq(b, from + 1, Len(b))

(* strstr(hay, needle) != nullptr                                          *)
Contains(hay, needle) ==
    \E i \in 1..(Len(hay) - Len(needle) + 1) :
        SubSeq(hay, i, i + Len(needle) - 1) = needle

-----------------------------------------------------------------------------
(* The chess engine (position.h, types.h: not part of src/).  Only the     *)
(* interface the replayer consumes is modelled: a position is a key and a  *)
(* side to move; a move changes the key and passes the turn.               *)

PROMOTION == 16384  \* 1 << 14, the MoveType bits of a Move
KNIGHT == 2

MoveA == 12 * 64 + 28   \* e2e4, the move of SAN token "a" (white only)
MoveB == 52 * 64 + 36   \* e7e5, the move of SAN token "b" (black only)

RootPos == [key |-> 0, stm |-> WHITE]

Position_set(fenStr) ==
    [key |-> (40 + Len(fenStr)) % KeyMod,
     stm |-> IF Contains(fenStr, <<" ", "b", " ">>) THEN BLACK ELSE WHITE]

san_to_move(pos, tok) ==
    CASE tok = <<"a">> -> IF pos.stm = WHITE THEN MoveA ELSE MOVE_NONE
      [] tok = <<"b">> -> IF pos.stm = BLACK THEN MoveB ELSE MOVE_NONE
      [] tok = <<"-", "-">> -> MOVE_NULL
      [] OTHER -> MOVE_NONE

do_move(pos, m) ==
    [key |-> (pos.key * 5 + (m % 7) + 1) % KeyMod, stm |-> 1 - pos.stm]

do_null_move(pos) ==
    [key |-> (pos.key * 5) % KeyMod, stm |-> 1 - pos.stm]

type_of(m) == (m \div PROMOTION) * PROMOTION

promotion_type(m) == ((m \div 4096) % 4) + KNIGHT

-----------------------------------------------------------------------------
(* to_polyglot: the 14 low bits of a Move, the promotion piece re-based.   *)

to_polyglot(m) ==
    IF type_of(m) = PROMOTION
    THEN (m % 4096) + (promotion_type(m) - 1) * 4096
    ELSE m % 16384

(* learn, as parse_game packs it: result in the upper 2 bits of the 32,    *)
(* the game offset divided by 8 in the lower 30.  The 32-bit value is      *)
(* hi * 2^30 + lo; it is kept as its two bit fields, hi = learn >> 30 and  *)
(* lo = learn & 0x3FFFFFFF.                                                *)

LearnMissingShift(res, ofs) == [hi |-> res % 4, lo |-> ofs % Pow30]

learn(res, ofs) == [hi |-> res % 4, lo |-> (ofs \div 8) % Pow30]

(* The SAN token the engine is handed at offset cur of the moves buffer,   *)
(* san_to_move(cur, end, fixed): the bytes up to the NUL or up to end.     *)
TokenAt(mv, cur) == CStr(mv, cur)

(* The scan to the next move, while *cur++: the offset after the next     *)
(* NUL.  For a last token                                                  *)
(* without NUL the scan leaves [moves, end); it reads bytes the game never *)
(* wrote and stops somewhere at or past end.  The loop condition           *)
(* `cur < end` only tells these outcomes from the others, so they are one. *)
NextCur(mv, cur) ==
    IF \E i \in (cur + 1)..Len(mv) : mv[i] = NUL
    THEN (CHOOSE i \in (cur + 1)..Len(mv) :
             mv[i] = NUL /\ \A j \in (cur + 1)..(i - 1) : mv[j] # NUL)
    ELSE Len(mv)

(* The locals of the loop of parse_game: a.cur, a.pos, a.st (the StateInfo *)
(* slots used) and a.kt (kTable); a.done once the function has returned,   *)
(* with its return value a.ret and whether it printed "Wrong move          *)
(* notation".                                                              *)
ReplayStart(cur, pos, st, kt) ==
    [cur |-> cur, pos |-> pos, st |-> st, kt |-> kt,
     ret |-> cur, wrong |-> FALSE, done |-> FALSE]

ReplayResult(a) ==
    [kTable |-> a.kt, ret |-> a.ret, wrong |-> a.wrong, st |-> a.st]

(* Variants of the loop of parse_game that differ from it in one place:    *)
(* the key taken after the move, and a rejected token skipped instead of   *)
(* ending the game.                                                        *)
ReplayStepKeyAfter(mv, a, lrn) ==
    IF a.cur >= Len(mv)
    THEN [a EXCEPT !.ret = Len(mv), !.done = TRUE]
    ELSE LET move == san_to_move(a.pos, TokenAt(mv, a.cur)) IN
         IF move = MOVE_NONE
         THEN [a EXCEPT !.ret = a.cur, !.wrong = TRUE, !.done = TRUE]
         ELSE IF move = MOVE_NULL
         THEN [a EXCEPT !.cur = NextCur(mv, a.cur),
                        !.pos = do_null_move(a.pos),
                        !.st = @ + 1]
         ELSE [a EXCEPT !.cur = NextCur(mv, a.cur),
                        !.pos = do_move(a.pos, move),
                        !.st = @ + 1,
                        !.kt = Append(@, [key |-> do_move(a.pos, move).key,
                                          move |-> to_polyglot(move),
                                          weight |-> 1, learn |-> lrn])]

ReplayStepSkipRejected(mv, a, lrn) ==
    IF a.cur >= Len(mv)
    THEN [a EXCEPT !.ret = Len(mv), !.done = TRUE]
    ELSE LET move == san_to_move(a.pos, TokenAt(mv, a.cur)) IN
         IF move = MOVE_NONE
         THEN [a EXCEPT !.cur = NextCur(mv, a.cur), !.wrong = TRUE]
         ELSE IF move = MOVE_NULL
         THEN [a EXCEPT !.cur = NextCur(mv, a.cur),
                        !.pos = do_null_move(a.pos),
                        !.st = @ + 1]
         ELSE [a EXCEPT !.cur = NextCur(mv, a.cur),
                        !.pos = do_move(a.pos, move),
                        !.st = @ + 1,
                        !.kt = Append(@, [key |-> a.pos.key,
                                          move |-> to_polyglot(move),
                                          weight |-> 1, learn |-> lrn])]

(* One pass of the loop of parse_game<false>, the test `cur < end`         *)
(* included.                                                               *)
ReplayStep(mv, a, lrn) ==
    IF a.cur >= Len(mv)
    THEN [a EXCEPT !.ret = Len(mv), !.done = TRUE]
    ELSE LET move == san_to_move(a.pos, TokenAt(mv, a.cur)) IN
         IF move = MOVE_NONE
         THEN [a EXCEPT !.ret = a.cur, !.wrong = TRUE, !.done = TRUE]
         ELSE IF move = MOVE_NULL
         THEN [a EXCEPT !.cur = NextCur(mv, a.cur),
                        !.pos = do_null_move(a.pos),
                        !.st = @ + 1]
         ELSE [a EXCEPT !.cur = NextCur(mv, a.cur),
                        !.pos = do_move(a.pos, move),
                        !.st = @ + 1,
                        !.kt = Append(@, [key |-> a.pos.key,
                                          move |-> to_polyglot(move),
                                          weight |-> 1, learn |-> lrn])]

(* n passes of the loop body `body` from the locals a, or fewer when the   *)
(* function returns earlier.  The passes are split in halves and every     *)
(* intermediate value is bound by a quantifier, so that a game of a        *)
(* thousand tokens is replayed at a nesting depth of ten.                  *)
RECURSIVE ReplayPasses(_, _, _, _, _)
ReplayPasses(body, mv, a, lrn, n) ==
    IF a.done THEN a
    ELSE IF n <= 1
    THEN CASE body = "KeyAfter" -> ReplayStepKeyAfter(mv, a, lrn)
           [] body = "SkipRejected" -> ReplayStepSkipRejected(mv, a, lrn)
           [] OTHER -> ReplayStep(mv, a, lrn)
    ELSE CHOOSE r \in
            {ReplayPasses(body, mv, h, lrn, n - (n \div 2)) :
                h \in {ReplayPasses(body, mv, a, lrn, n \div 2)}} : TRUE

(* Every pass but the last consumes at least one byte of [cur, end).       *)
ReplayRun(body, mv, cur, pos, st, kt, lrn) ==
    ReplayResult(CHOOSE r \in
        {ReplayPasses(body, mv, a, lrn, Len(mv) + 1) :
            a \in {ReplayStart(cur, pos, st, kt)}} : TRUE)

ReplayLoopKeyAfter(mv, cur, pos, st, kt, lrn) ==
    ReplayRun("KeyAfter", mv, cur, pos, st, kt, lrn)

ReplayLoopSkipRejected(mv, cur, pos, st, kt, lrn) ==
    ReplayRun("SkipRejected", mv, cur, pos, st, kt, lrn)

(* The loop of parse_game<false>.  st counts the StateInfo slots used.     *)
ReplayLoop(mv, cur, pos, st, kt, lrn) ==
    ReplayRun("parse_game", mv, cur, pos, st, kt, lrn)

(* parse_game<false>(moves, end, kTable, fen, fenEnd, fixed, gameOfs,      *)
(* result): mv is [moves, end), fenBuf is [fen, fenEnd).                   *)
parse_game(mv, kt, fenBuf, ofs, res) ==
    LET hasFen == fenBuf # <<>>
        pos0 == IF hasFen THEN Position_set(CStr(fenBuf, 0)) ELSE RootPos
    IN ReplayLoop(mv, 0, pos0, IF hasFen THEN 1 ELSE 0, kt, learn(res, ofs))

-----------------------------------------------------------------------------
(* parse_pgn.  A parser state is the record of the locals of parse_pgn     *)
(* (Cur below); every Step handler is an operator from such a record to    *)
(* the set of records the handler can leave, the loop's ++data included.   *)
(* A handler has more than one outcome only where it reads a byte outside  *)
(* the mapped region [0, size): such a read returns whatever lies there or *)
(* faults, so the comparison it feeds may go either way or end the run.    *)

InRange(p, d) == d >= 0 /\ d < Len(p.input)

At(p, d) == p.input[d + 1]

Fault(p) == [p EXCEPT !.pc = "fault"]

Advance(p) == [p EXCEPT !.data = @ + 1]

(* strncmp(base + d, pat, Len(pat)): "eq", "ne", or "oob" when the bytes   *)
(* inside the region all match and the comparison goes on outside it.      *)
StrNCmp(p, d, pat) ==
    LET bad(i) == ~InRange(p, d + i - 1) \/ At(p, d + i - 1) # pat[i]
    IN  IF \A i \in 1..Len(pat) : ~bad(i) THEN "eq"
        ELSE LET k == CHOOSE i \in 1..Len(pat) :
                          bad(i) /\ \A j \in 1..(i - 1) : ~bad(j)
             IN  IF InRange(p, d + k - 1) THEN "ne" ELSE "oob"

Outcomes(r) == IF r = "oob" THEN {"eq", "ne", "fault"} ELSE {r}

EventPat == <<"[", "E", "v", "e", "n", "t", " ">>
FenPat == <<"F", "E", "N", " ", "\"">>
VariantPat == <<"V", "a", "r", "i", "a", "n", "t", " ">>
StandardPat == <<"\"", "S", "t", "a", "n", "d", "a", "r", "d", "\"">>

(* *stateSp++ = s: a 17th entry is written past stateStack[16].            *)
Push(p, s) ==
    IF Len(p.stateStack) >= StackSize THEN Fault(p)
    ELSE [p EXCEPT !.stateStack = Append(@, s)]

(* The three places that hand the pending game to the replayer and count   *)
(* it: parse_game(moves, end, kTable, fen, fenEnd, fixed, gameOfs,         *)
(* result); gameCnt++.  The call is logged in the ghost calls.             *)
Replay(p, kind) ==
    LET r == parse_game(p.moves, p.kTable, p.fen, p.gameOfs, p.result)
        q == [p EXCEPT !.kTable = r.kTable,
                       !.gameCnt = @ + 1,
                       !.diag = IF r.wrong THEN @ + 1 ELSE @,
                       !.calls = Append(@,
                           [kind |-> kind, at |-> p.data,
                            moves |-> p.moves, src |-> p.movesSrc,
                            fen |-> p.fen, gameOfs |-> p.gameOfs,
                            result |-> p.result,
                            first |-> Len(p.kTable), last |-> Len(r.kTable),
                            ret |-> r.ret, wrong |-> r.wrong])]
    IN  IF r.st > StatesSize THEN Fault(q) ELSE q

(* get_result(data): the set of values it can return, -1 for a fault of a  *)
(* look-behind before the start of the region.                             *)
get_result(p, d) ==
    LET c == At(p, d) IN
    CASE c = "/" -> {2}
      [] c = "0" -> {1}
      [] c = "-" ->
            IF ~InRange(p, d - 1) THEN {0, 1, 3, -1}
            ELSE LET b1 == At(p, d - 1) IN
                 IF b1 = "1" THEN {0}
                 ELSE IF b1 = " " /\ ~InRange(p, d - 2) THEN {0, 1, 3, -1}
                 ELSE IF b1 = " " /\ At(p, d - 2) = "1" THEN {0}
                 ELSE IF b1 = "0" THEN {1}
                 ELSE IF b1 = " " /\ At(p, d - 2) = "0" THEN {1}
                 ELSE {3}
      [] OTHER -> {3}

(* case FAIL: error(state, data) prints std::string(data, 50).             *)
FAIL(p) ==
    {Advance([p EXCEPT !.diag = @ + 1])}
    \cup (IF p.data + ErrorWindow > Len(p.input) THEN {Fault(p)} ELSE {})

CONTINUE(p) == {Advance(p)}

(* GAME_START that steps back and stays in SKIP_GAME.                      *)
GAME_START_NoHeader(p) ==
    LET r == Outcomes(StrNCmp(p, p.data - 1, EventPat)) IN
    (IF "eq" \in r THEN {Advance([p EXCEPT !.data = @ - 2])} ELSE {})
    \cup (IF "ne" \in r THEN {Advance(p)} ELSE {})
    \cup (IF "fault" \in r THEN {Fault(p)} ELSE {})

GAME_START(p) ==
    LET r == Outcomes(StrNCmp(p, p.data - 1, EventPat)) IN
    (IF "eq" \in r
     THEN {Advance([p EXCEPT !.data = @ - 2, !.state = "HEADER"])} ELSE {})
    \cup (IF "ne" \in r THEN {Advance(p)} ELSE {})
    \cup (IF "fault" \in r THEN {Fault(p)} ELSE {})

OPEN_TAG(p) ==
    LET d == p.data
        q == Push(p, p.state)
        fenR == Outcomes(StrNCmp(p, d + 1, FenPat))
        varR == Outcomes(StrNCmp(p, d + 1, VariantPat))
        stdR == Outcomes(StrNCmp(p, d + 9, StandardPat))
    IN  IF q.pc = "fault" THEN {q}
        ELSE
          (IF "eq" \in fenR
           THEN {Advance([q EXCEPT !.data = @ + 5, !.state = "FEN_TAG"])}
           ELSE {})
          \cup
          (IF "ne" \in fenR /\ "eq" \in varR /\ "ne" \in stdR
           THEN {Advance([q EXCEPT !.stateStack = Front(@),
                                   !.state = "SKIP_GAME"])}
           ELSE {})
          \cup
          (IF "ne" \in fenR
              /\ ("ne" \in varR \/ ("eq" \in varR /\ "eq" \in stdR))
           THEN {Advance([q EXCEPT !.state = "TAG"])}
           ELSE {})
          \cup
          (IF "fault" \in fenR
              \/ ("ne" \in fenR
                  /\ ("fault" \in varR
                      \/ ("eq" \in varR /\ "fault" \in stdR)))
           THEN {Fault(p)}
           ELSE {})

OPEN_BRACE_COMMENT(p) ==
    LET q == Push(p, p.state) IN
    IF q.pc = "fault" THEN {q}
    ELSE {Advance([q EXCEPT !.state = "BRACE_COMMENT"])}

(* *fenEnd++ = *data                                                       *)
READ_FEN(p) ==
    IF Len(p.fen) >= FenSize THEN {Fault(p)}
    ELSE {Advance([p EXCEPT !.fen = Append(@, At(p, p.data))])}

CLOSE_FEN_TAG(p) ==
    IF Len(p.fen) >= FenSize THEN {Fault(p)}
    ELSE LET f == Append(p.fen, NUL) IN
         {Advance([p EXCEPT
              !.fen = f,
              !.state = "TAG",
              !.stm = IF Contains(CStr(f, 0), <<" ", "b", " ">>)
                      THEN BLACK ELSE @])}

OPEN_VARIATION(p) ==
    LET q == Push(p, p.state) IN
    IF q.pc = "fault" THEN {q}
    ELSE {Advance([q EXCEPT !.state = "VARIATION"])}

START_NAG(p) ==
    LET q == Push(p, p.state) IN
    IF q.pc = "fault" THEN {q}
    ELSE {Advance([q EXCEPT !.state = "NUMERIC_ANNOTATION_GLYPH"])}

(* state = *(--stateSp): with an empty stack this reads before            *)
(* stateStack[0].                                                          *)
POP_STATE(p) ==
    IF p.stateStack = <<>> THEN {Fault(p)}
    ELSE {Advance([p EXCEPT !.state = Last(p.stateStack),
                            !.stateStack = Front(@)])}

START_MOVE_NUMBER(p) == {Advance([p EXCEPT !.state = "MOVE_NUMBER"])}

START_NEXT_SAN(p) == {Advance([p EXCEPT !.state = "NEXT_SAN"])}

(* *end++ = *data                                                          *)
START_READ_SAN(p) ==
    IF Len(p.moves) >= MovesSize THEN {Fault(p)}
    ELSE {Advance([p EXCEPT !.moves = Append(@, At(p, p.data)),
                            !.movesSrc = Append(@, p.data),
                            !.state = "READ_SAN"])}

READ_MOVE_CHAR(p) ==
    IF Len(p.moves) >= MovesSize THEN {Fault(p)}
    ELSE {Advance([p EXCEPT !.moves = Append(@, At(p, p.data)),
                            !.movesSrc = Append(@, p.data)])}

END_MOVE(p) ==
    IF Len(p.moves) >= MovesSize THEN {Fault(p)}
    ELSE {Advance([p EXCEPT
              !.moves = Append(@, NUL),
              !.movesSrc = Append(@, p.data),
              !.curMove = Len(p.moves) + 1,
              !.moveCnt = @ + 1,
              !.state = IF p.stm = WHITE THEN "NEXT_SAN" ELSE "NEXT_MOVE",
              !.stm = 1 - @])}

(* assert (result == 3) aborts a build with assertions and is no code in   *)
(* a build without.                                                        *)
START_RESULT(p) ==
    LET rs == get_result(p, p.data) IN
    {Advance([p EXCEPT !.result = r, !.state = "RESULT"]) : r \in rs \ {-1}}
    \cup (IF -1 \in rs \/ p.result # 3 THEN {Fault(p)} ELSE {})

(* data[2] != '0' is a result; the `continue` of the source still runs the *)
(* ++data of the for loop.                                                 *)
CASTLE_OR_RESULT(p) ==
    LET zero == IF InRange(p, p.data + 2)
                THEN (IF At(p, p.data + 2) = "0" THEN {"eq"} ELSE {"ne"})
                ELSE {"eq", "ne", "fault"}
    IN  (IF "ne" \in zero THEN START_RESULT(p) ELSE {})
        \cup (IF "eq" \in zero THEN START_READ_SAN(p) ELSE {})
        \cup (IF "fault" \in zero THEN {Fault(p)} ELSE {})

(* END_GAME without `result = 3`.                                          *)
END_GAME_KeepResult(p) ==
    IF At(p, p.data) # "\n"
    THEN {Advance([p EXCEPT !.state = "RESULT"])}
    ELSE LET q == Replay(p, "END_GAME") IN
         IF q.pc = "fault" THEN {q}
         ELSE {Advance([q EXCEPT !.gameOfs = p.data + 1,
                                 !.moves = <<>>, !.movesSrc = <<>>,
                                 !.curMove = 0,
                                 !.fen = <<>>,
                                 !.state = "HEADER",
                                 !.stm = WHITE])}

END_GAME(p) ==
    IF At(p, p.data) # "\n"
    THEN {Advance([p EXCEPT !.state = "RESULT"])}
    ELSE LET q == Replay(p, "END_GAME") IN
         IF q.pc = "fault" THEN {q}
         ELSE {Advance([q EXCEPT !.result = 3,
                                 !.gameOfs = p.data + 1,
                                 !.moves = <<>>, !.movesSrc = <<>>,
                                 !.curMove = 0,
                                 !.fen = <<>>,
                                 !.state = "HEADER",
                                 !.stm = WHITE])}

MISSING_RESULT_KeepMoves(p) ==
    LET q == Replay(p, "MISSING_RESULT")
        r == [q EXCEPT !.result = 3,
                       !.gameOfs = p.data,
                       !.fen = <<>>,
                       !.state = "HEADER",
                       !.stm = WHITE]
        t == Push(r, r.state)
    IN  IF q.pc = "fault" THEN {q}
        ELSE IF t.pc = "fault" THEN {t}
        ELSE {Advance([t EXCEPT !.state = "TAG"])}

(* MISSING_RESULT without `*stateSp++ = state`.                            *)
MISSING_RESULT_NoPush(p) ==
    LET q == Replay(p, "MISSING_RESULT")
        r == [q EXCEPT !.result = 3,
                       !.gameOfs = p.data,
                       !.moves = <<>>, !.movesSrc = <<>>,
                       !.curMove = 0,
                       !.fen = <<>>,
                       !.state = "HEADER",
                       !.stm = WHITE]
    IN  IF q.pc = "fault" THEN {q}
        ELSE {Advance([r EXCEPT !.state = "TAG"])}

MISSING_RESULT(p) ==
    LET q == Replay(p, "MISSING_RESULT")
        r == [q EXCEPT !.result = 3,
                       !.gameOfs = p.data,
                       !.moves = <<>>, !.movesSrc = <<>>,
                       !.curMove = 0,
                       !.fen = <<>>,
                       !.state = "HEADER",
                       !.stm = WHITE]
        t == Push(r, r.state)
    IN  IF q.pc = "fault" THEN {q}
        ELSE IF t.pc = "fault" THEN {t}
        ELSE {Advance([t EXCEPT !.state = "TAG"])}

TAG_IN_BRACE(p) ==
    LET r == Outcomes(StrNCmp(p, p.data, EventPat)) IN
    (IF "ne" \in r THEN {Advance(p)} ELSE {})
    \cup (IF "eq" \in r THEN MISSING_RESULT(p) ELSE {})
    \cup (IF "fault" \in r THEN {Fault(p)} ELSE {})

(* After the loop: force accounting of the last game if still pending.     *)
EndOfInput_NoFlush(p) == {[p EXCEPT !.pc = "done"]}

EndOfInput(p) ==
    IF p.state # "HEADER" /\ p.state # "SKIP_GAME" /\ Len(p.moves) # 0
    THEN LET q == Replay(p, "EOF") IN
         {IF q.pc = "fault" THEN q ELSE [q EXCEPT !.pc = "done"]}
    ELSE {[p EXCEPT !.pc = "done"]}

-----------------------------------------------------------------------------
(* Post-processing of Parser::make_book and write_poly_file.               *)

(* PolyEntry::operator< (book.h, not part of src/): lexicographic by       *)
(* (key, move, weight, learn).                                             *)
LearnLess(a, b) == a.hi < b.hi \/ (a.hi = b.hi /\ a.lo < b.lo)

PolyLess(a, b) ==
    \/ a.key < b.key
    \/ a.key = b.key /\ a.move < b.move
    \/ a.key = b.key /\ a.move = b.move /\ a.weight < b.weight
    \/ a.key = b.key /\ a.move = b.move /\ a.weight = b.weight
       /\ LearnLess(a.learn, b.learn)

(* The comparator sort_by_frequency hands to std::sort.                    *)
ByFrequency(a, b) ==
    a.weight > b.weight \/ (a.weight = b.weight /\ a.move > b.move)

(* The comparators std::sort is called with, by name.                      *)
Less(cmp, a, b) ==
    CASE cmp = "PolyEntry"   -> PolyLess(a, b)
      [] OTHER               -> ByFrequency(a, b)

RemoveAt(s, i) == SubSeq(s, 1, i - 1) \o SubSeq(s, i + 1, Len(s))

(* std::sort(first, last, less): every arrangement of the elements in      *)
(* which no element is followed by one that is less than it.  std::sort is *)
(* not stable, so elements the comparator holds equivalent come out in any *)
(* order.                                                                  *)
RECURSIVE StdSort(_, _)
StdSort(s, cmp) ==
    IF s = <<>> THEN {<<>>}
    ELSE UNION { { <<s[i]>> \o rest : rest \in StdSort(RemoveAt(s, i), cmp) }
                 : i \in { j \in 1..Len(s) :
                             \A k \in 1..Len(s) : ~Less(cmp, s[k], s[j]) } }

(* moves[m] after the counting loop over kTable[start, end).               *)
Multiplicity(t, start, end, m) ==
    Cardinality({i \in (start + 1)..end : t[i].move = m})

(* sort_by_frequency(kTable, start, end), 0-based half-open range.  The    *)
(* product moves[m] * 0xFFFF is an int; it stays below 2^31 for up to      *)
(* 32768 records of one move, far above the tables of this model.          *)
sort_by_frequency_NoWeights(t, start, end) ==
    LET run == SubSeq(t, start + 1, end)
    IN  { SubSeq(t, 1, start) \o r \o SubSeq(t, end + 1, Len(t))
          : r \in StdSort(run, "ByFrequency") }

sort_by_frequency(t, start, end) ==
    LET w == [i \in 1..Len(t) |->
                IF i > start /\ i <= end
                THEN [t[i] EXCEPT !.weight =
                        (Multiplicity(t, start, end, t[i].move) * MaxWeight)
                            \div (end - start)]
                ELSE t[i]]
        run == SubSeq(w, start + 1, end)
    IN  { SubSeq(w, 1, start) \o r \o SubSeq(w, end + 1, Len(w))
          : r \in StdSort(run, "ByFrequency") }

(* The loop of make_book over idx = 1 .. size - 1 (0-based), from the      *)
(* state (idx, last).                                                      *)
RECURSIVE FrequencyPass(_, _, _)
FrequencyPass(t, idx, last) ==
    IF idx >= Len(t) THEN {t}
    ELSE IF t[idx + 1].key # t[idx].key
    THEN IF idx - last > 2
         THEN UNION { FrequencyPass(u, idx + 1, idx)
                      : u \in sort_by_frequency(t, last, idx) }
         ELSE FrequencyPass(t, idx + 1, idx)
    ELSE FrequencyPass(t, idx + 1, last)

(* The frequency pass without the full sort before it.                     *)
PostProcessUnsorted(t) == FrequencyPass(t, 1, 0)

(* make_book after parse_pgn: std::sort(kTable.begin(), kTable.end()),     *)
(* then the frequency pass.                                                *)
PostProcess(t) ==
    UNION { FrequencyPass(u, 1, 0) : u \in StdSort(t, "PolyEntry") }

(* write_poly_file(kTable, fname, full): the entries written, from entry   *)
(* i on, prev being the last entry written (at first the zeroed dummy).    *)
RECURSIVE WriteLoopKeyOnly(_, _, _, _)
WriteLoopKeyOnly(t, i, prev, isFull) ==
    IF i > Len(t) THEN <<>>
    ELSE IF t[i].key # prev.key \/ isFull
    THEN <<t[i]>> \o WriteLoopKeyOnly(t, i + 1, t[i], isFull)
    ELSE WriteLoopKeyOnly(t, i + 1, prev, isFull)

RECURSIVE WriteLoop(_, _, _, _)
WriteLoop(t, i, prev, isFull) ==
    IF i > Len(t) THEN <<>>
    ELSE IF t[i].key # prev.key \/ t[i].move # prev.move \/ isFull
    THEN <<t[i]>> \o WriteLoop(t, i + 1, t[i], isFull)
    ELSE WriteLoop(t, i + 1, prev, isFull)

Dummy == [key |-> 0, move |-> 0, weight |-> 0, learn |-> [hi |-> 0, lo |-> 0]]

write_poly_file_KeyOnly(t, isFull) == WriteLoopKeyOnly(t, 1, Dummy, isFull)

write_poly_file(t, isFull) == WriteLoop(t, 1, Dummy, isFull)

-----------------------------------------------------------------------------
(* The inputs.  An input is the concatenation of at most MaxChunks lexical *)
(* pieces of PGN text, in any order: tags, move text, results, comment and *)
(* variation delimiters, a NAG.  SAN tokens are single letters ("a" is a   *)
(* move only White has, "b" one only Black has) and the null move "--".    *)

EventChunk == <<"[", "E", "v", "e", "n", "t", " ", "]">>
VariantChunk == <<"[", "V", "a", "r", "i", "a", "n", "t", " ", "X", "]">>
FenChunk == <<"[", "F", "E", "N", " ", "\"", " ", "b", " ", "\"", "]">>
MoveAChunk == <<"1", ".", "a", " ">>
MoveBChunk == <<"b", " ">>
NullChunk == <<"-", "-", " ">>
StarChunk == <<"*", "\n">>
GameChunk == <<"1", ".", "a", " ", "0", "-", "1", "\n">>

Vocabulary ==
    << EventChunk, VariantChunk, FenChunk, MoveAChunk, MoveBChunk, NullChunk,
       StarChunk, GameChunk,
       <<"0", "-", "1">>,
       <<"a">>,
       <<"\n">>,
       <<"{">>,
       <<"}">>,
       <<"(">>,
       <<")">>,
       <<"$", "1">> >>

ChunkSeqs == UNION {[1..k -> 1..Len(Vocabulary)] : k \in 0..MaxChunks}

Bytes(cs) == Flatten([i \in 1..Len(cs) |-> Vocabulary[cs[i]]])

-----------------------------------------------------------------------------
(* The state machine.                                                      *)

Cur ==
    [input |-> input, data |-> data, state |-> state,
     stateStack |-> stateStack, fen |-> fen, moves |-> moves,
     movesSrc |-> movesSrc, curMove |-> curMove, moveCnt |-> moveCnt,
     gameCnt |-> gameCnt, gameOfs |-> gameOfs, result |-> result,
     stm |-> stm, kTable |-> kTable, calls |-> calls, diag |-> diag,
     pc |-> pc]

Set(q) ==
    /\ input' = q.input
    /\ data' = q.data
    /\ state' = q.state
    /\ stateStack' = q.stateStack
    /\ fen' = q.fen
    /\ moves' = q.moves
    /\ movesSrc' = q.movesSrc
    /\ curMove' = q.curMove
    /\ moveCnt' = q.moveCnt
    /\ gameCnt' = q.gameCnt
    /\ gameOfs' = q.gameOfs
    /\ result' = q.result
    /\ stm' = q.stm
    /\ kTable' = q.kTable
    /\ calls' = q.calls
    /\ diag' = q.diag
    /\ pc' = q.pc
    /\ UNCHANGED <<chunks, file, full, probe, json_moves>>

(* No probe has been made.                                                 *)
NoProbe == [ofs |-> 0, limit |-> 0, skip |-> 0]

(* Locals of parse_pgn at its entry.                                       *)
ParserStart(inp) ==
    [input |-> inp, data |-> 0, state |-> "HEADER", stateStack |-> <<>>,
     fen |-> <<>>, moves |-> <<>>, movesSrc |-> <<>>, curMove |-> 0,
     moveCnt |-> 0, gameCnt |-> 0, gameOfs |-> 0, result |-> 3,
     stm |-> WHITE, kTable |-> <<>>, calls |-> <<>>, diag |-> 0,
     pc |-> "parse"]

InitWith(inp) ==
    LET q == ParserStart(inp) IN
    /\ input = q.input
    /\ data = q.data
    /\ state = q.state
    /\ stateStack = q.stateStack
    /\ fen = q.fen
    /\ moves = q.moves
    /\ movesSrc = q.movesSrc
    /\ curMove = q.curMove
    /\ moveCnt = q.moveCnt
    /\ gameCnt = q.gameCnt
    /\ gameOfs = q.gameOfs
    /\ result = q.result
    /\ stm = q.stm
    /\ kTable = q.kTable
    /\ calls = q.calls
    /\ diag = q.diag
    /\ pc = q.pc
    /\ file = <<>>
    /\ full = FALSE
    /\ probe = NoProbe
    /\ json_moves = <<>>

Init ==
    /\ chunks \in ChunkSeqs
    /\ InitWith(Bytes(chunks))

(* switch (state[tk]) for the byte under the cursor.                       *)
Dispatch(p) == ToStep(p.state, ToToken(At(p, p.data)))

(* One pass of the loop body of parse_pgn from the locals p.               *)
StepSet(p) ==
    LET h == Dispatch(p) IN
    CASE h = "FAIL" -> FAIL(p)
      [] h = "CONTINUE" -> CONTINUE(p)
      [] h = "GAME_START" -> GAME_START(p)
      [] h = "OPEN_TAG" -> OPEN_TAG(p)
      [] h = "OPEN_BRACE_COMMENT" -> OPEN_BRACE_COMMENT(p)
      [] h = "READ_FEN" -> READ_FEN(p)
      [] h = "CLOSE_FEN_TAG" -> CLOSE_FEN_TAG(p)
      [] h = "OPEN_VARIATION" -> OPEN_VARIATION(p)
      [] h = "START_NAG" -> START_NAG(p)
      [] h = "POP_STATE" -> POP_STATE(p)
      [] h = "START_MOVE_NUMBER" -> START_MOVE_NUMBER(p)
      [] h = "START_NEXT_SAN" -> START_NEXT_SAN(p)
      [] h = "CASTLE_OR_RESULT" -> CASTLE_OR_RESULT(p)
      [] h = "START_READ_SAN" -> START_READ_SAN(p)
      [] h = "READ_MOVE_CHAR" -> READ_MOVE_CHAR(p)
      [] h = "END_MOVE" -> END_MOVE(p)
      [] h = "START_RESULT" -> START_RESULT(p)
      [] h = "END_GAME" -> END_GAME(p)
      [] h = "TAG_IN_BRACE" -> TAG_IN_BRACE(p)
      [] OTHER -> MISSING_RESULT(p)

Running == pc = "parse" /\ data < Len(input)

CurStep == ToStep(state, ToToken(input[data + 1]))

Step_FAIL ==
    Running /\ CurStep = "FAIL" /\ \E q \in FAIL(Cur) : Set(q)
Step_CONTINUE ==
    Running /\ CurStep = "CONTINUE" /\ \E q \in CONTINUE(Cur) : Set(q)
Step_GAME_START ==
    Running /\ CurStep = "GAME_START"
            /\ \E q \in GAME_START(Cur) : Set(q)
Step_OPEN_TAG ==
    Running /\ CurStep = "OPEN_TAG" /\ \E q \in OPEN_TAG(Cur) : Set(q)
Step_OPEN_BRACE_COMMENT ==
    Running /\ CurStep = "OPEN_BRACE_COMMENT"
            /\ \E q \in OPEN_BRACE_COMMENT(Cur) : Set(q)
Step_READ_FEN ==
    Running /\ CurStep = "READ_FEN" /\ \E q \in READ_FEN(Cur) : Set(q)
Step_CLOSE_FEN_TAG ==
    Running /\ CurStep = "CLOSE_FEN_TAG"
            /\ \E q \in CLOSE_FEN_TAG(Cur) : Set(q)
Step_OPEN_VARIATION ==
    Running /\ CurStep = "OPEN_VARIATION"
            /\ \E q \in OPEN_VARIATION(Cur) : Set(q)
Step_START_NAG ==
    Running /\ CurStep = "START_NAG" /\ \E q \in START_NAG(Cur) : Set(q)
Step_POP_STATE ==
    Running /\ CurStep = "POP_STATE" /\ \E q \in POP_STATE(Cur) : Set(q)
Step_START_MOVE_NUMBER ==
    Running /\ CurStep = "START_MOVE_NUMBER"
            /\ \E q \in START_MOVE_NUMBER(Cur) : Set(q)
Step_START_NEXT_SAN ==
    Running /\ CurStep = "START_NEXT_SAN"
            /\ \E q \in START_NEXT_SAN(Cur) : Set(q)
Step_CASTLE_OR_RESULT ==
    Running /\ CurStep = "CASTLE_OR_RESULT"
            /\ \E q \in CASTLE_OR_RESULT(Cur) : Set(q)
Step_START_READ_SAN ==
    Running /\ CurStep = "START_READ_SAN"
            /\ \E q \in START_READ_SAN(Cur) : Set(q)
Step_READ_MOVE_CHAR ==
    Running /\ CurStep = "READ_MOVE_CHAR"
            /\ \E q \in READ_MOVE_CHAR(Cur) : Set(q)
Step_END_MOVE ==
    Running /\ CurStep = "END_MOVE" /\ \E q \in END_MOVE(Cur) : Set(q)
Step_START_RESULT ==
    Running /\ CurStep = "START_RESULT"
            /\ \E q \in START_RESULT(Cur) : Set(q)
Step_END_GAME ==
    Running /\ CurStep = "END_GAME" /\ \E q \in END_GAME(Cur) : Set(q)
Step_TAG_IN_BRACE ==
    Running /\ CurStep = "TAG_IN_BRACE"
            /\ \E q \in TAG_IN_BRACE(Cur) : Set(q)
Step_MISSING_RESULT ==
    Running /\ CurStep = "MISSING_RESULT"
            /\ \E q \in MISSING_RESULT(Cur) : Set(q)

(* The loop has ended: data >= eof.                                        *)
Step_EndOfInput ==
    pc = "parse" /\ data >= Len(input) /\ \E q \in EndOfInput(Cur) : Set(q)

(* make_book, after parse_pgn has returned.                                *)
Step_PostProcess ==
    /\ pc = "done"
    /\ \E t \in PostProcess(kTable) : kTable' = t
    /\ pc' = "sorted"
    /\ UNCHANGED <<input, chunks, data, state, stateStack, fen, moves,
                   movesSrc, curMove, moveCnt, gameCnt, gameOfs, result, stm,
                   calls, diag, file, full, probe, json_moves>>

Step_WritePolyFile ==
    /\ pc = "sorted"
    /\ \E isFull \in BOOLEAN :
          /\ full' = isFull
          /\ file' = write_poly_file(kTable, isFull)
    /\ pc' = "written"
    /\ UNCHANGED <<input, chunks, data, state, stateStack, fen, moves,
                   movesSrc, curMove, moveCnt, gameCnt, gameOfs, result, stm,
                   kTable, calls, diag, probe, json_moves>>

(* parse_pgn alone.                                                        *)
NextParse ==
    \/ Step_FAIL
    \/ Step_CONTINUE
    \/ Step_GAME_START
    \/ Step_OPEN_TAG
    \/ Step_OPEN_BRACE_COMMENT
    \/ Step_READ_FEN
    \/ Step_CLOSE_FEN_TAG
    \/ Step_OPEN_VARIATION
    \/ Step_START_NAG
    \/ Step_POP_STATE
    \/ Step_START_MOVE_NUMBER
    \/ Step_START_NEXT_SAN
    \/ Step_CASTLE_OR_RESULT
    \/ Step_START_READ_SAN
    \/ Step_READ_MOVE_CHAR
    \/ Step_END_MOVE
    \/ Step_START_RESULT
    \/ Step_END_GAME
    \/ Step_TAG_IN_BRACE
    \/ Step_MISSING_RESULT
    \/ Step_EndOfInput

(* make_book: parse_pgn, then the post-processing and the write.           *)
Next ==
    \/ NextParse
    \/ Step_PostProcess
    \/ Step_WritePolyFile

Spec == Init /\ [][Next]_vars

(* The post-processing alone, from every record table of at most MaxRecs   *)
(* records parse_game can have built: weight 1, a move of the engine.      *)
BookKeys == {0, 1, 2}
BookMoves == {to_polyglot(MoveA), to_polyglot(MoveB)}
BookLearns == {learn(0, 0), learn(2, 8)}

BookRecords ==
    [key : BookKeys, move : BookMoves, weight : {1}, learn : BookLearns]

BookTables == UNION {[1..k -> BookRecords] : k \in 0..MaxRecs}

InitBook ==
    /\ chunks = <<>>
    /\ \E t \in BookTables :
          LET q == [ParserStart(<<>>) EXCEPT !.kTable = t, !.pc = "done"] IN
          /\ input = q.input
          /\ data = q.data
          /\ state = q.state
          /\ stateStack = q.stateStack
          /\ fen = q.fen
          /\ moves = q.moves
          /\ movesSrc = q.movesSrc
          /\ curMove = q.curMove
          /\ moveCnt = q.moveCnt
          /\ gameCnt = q.gameCnt
          /\ gameOfs = q.gameOfs
          /\ result = q.result
          /\ stm = q.stm
          /\ kTable = q.kTable
          /\ calls = q.calls
          /\ diag = q.diag
          /\ pc = q.pc
    /\ file = <<>>
    /\ full = FALSE
    /\ probe = NoProbe
    /\ json_moves = <<>>

(* The parser on a file whose first games each end in a brace comment     *)
(* that is never closed, the next game's Event tag standing inside it.     *)
MaxTail == 2

LeakGame == <<"1", ".", "a", " ", "{">> \o EventChunk

RECURSIVE Repeat(_, _)
Repeat(s, n) == IF n = 0 THEN <<>> ELSE s \o Repeat(s, n - 1)

TailSeqs == UNION {[1..k -> 1..Len(Vocabulary)] : k \in 0..MaxTail}

InitLeak ==
    /\ chunks \in TailSeqs
    /\ \E n \in {StackSize - 1, StackSize} :
          InitWith(Repeat(LeakGame, n) \o Bytes(chunks))

SpecLeak == InitLeak /\ [][NextParse]_vars

NextBook == Step_PostProcess \/ Step_WritePolyFile

SpecBook == InitBook /\ [][NextBook]_vars

-----------------------------------------------------------------------------
(* What a replay has to produce, stated on the tokens of the moves buffer  *)
(* and on the engine alone.                                                *)

BeforeBook == pc \in {"parse", "done", "fault"}

RECURSIVE SetToSeq(_)
SetToSeq(S) ==
    IF S = {} THEN <<>>
    ELSE LET x == CHOOSE y \in S : \A z \in S : y <= z
         IN  <<x>> \o SetToSeq(S \ {x})

(* The SAN tokens of a moves buffer, in text order.                        *)
Tokens(mv) ==
    LET starts == (IF mv = <<>> THEN {} ELSE {0})
                  \cup {i \in 1..(Len(mv) - 1) : mv[i] = NUL}
        ss == SetToSeq(starts)
    IN  [k \in 1..Len(ss) |-> CStr(mv, ss[k])]

StartPos(fenBuf) ==
    IF fenBuf = <<>> THEN RootPos ELSE Position_set(CStr(fenBuf, 0))

(* The position after the first k tokens, all of them accepted.            *)
RECURSIVE PosAfter(_, _, _)
PosAfter(pos, toks, k) ==
    IF k = 0 THEN pos
    ELSE LET q == PosAfter(pos, toks, k - 1)
             m == san_to_move(q, toks[k])
         IN  IF m = MOVE_NULL THEN do_null_move(q) ELSE do_move(q, m)

MoveOf(pos, toks, k) == san_to_move(PosAfter(pos, toks, k - 1), toks[k])

(* The number of tokens before the first one the engine rejects.           *)
Accepted(pos, toks) ==
    CHOOSE k \in 0..Len(toks) :
        /\ \A j \in 1..k : MoveOf(pos, toks, j) # MOVE_NONE
        /\ k = Len(toks) \/ MoveOf(pos, toks, k + 1) = MOVE_NONE

(* The accepted tokens that are no null move, in game order.               *)
Emitting(pos, toks) ==
    SetToSeq({j \in 1..Accepted(pos, toks) :
                 MoveOf(pos, toks, j) # MOVE_NULL})

(* The (key, move) pairs call c has to append.                             *)
Expected(c) ==
    LET pos == StartPos(c.fen)
        toks == Tokens(c.moves)
        em == Emitting(pos, toks)
    IN  [n \in 1..Len(em) |->
           [key |-> PosAfter(pos, toks, em[n] - 1).key,
            move |-> to_polyglot(MoveOf(pos, toks, em[n]))]]

Emitted(c) ==
    [n \in 1..(c.last - c.first) |->
       [key |-> kTable[c.first + n].key, move |-> kTable[c.first + n].move]]

(* C1: every replay appends one record per accepted token that is no null  *)
(* move, up to the first rejected token, in game order, each with the key  *)
(* of the position before its move; the table is the replays' records one  *)
(* after the other.                                                        *)
C1_OneRecordPerAcceptedMove ==
    BeforeBook =>
        /\ \A i \in 1..Len(calls) :
              /\ Emitted(calls[i]) = Expected(calls[i])
              /\ calls[i].first = IF i = 1 THEN 0 ELSE calls[i - 1].last
        /\ Len(kTable) = IF calls = <<>> THEN 0 ELSE calls[Len(calls)].last

(* A game of three accepted tokens, the second a null move, has given two  *)
(* records.                                                                *)
C1_Witness ==
    /\ BeforeBook
    /\ \E i \in 1..Len(calls) :
          LET c == calls[i]
              toks == Tokens(c.moves)
          IN  /\ Len(toks) = 3
              /\ Accepted(StartPos(c.fen), toks) = 3
              /\ MoveOf(StartPos(c.fen), toks, 2) = MOVE_NULL
              /\ c.last - c.first = 2

(* C6: every record of a game carries the learn word of that game: the     *)
(* result's low two bits in bits 31..30 and bits 32..3 of the game's byte  *)
(* offset in bits 29..0; learn >> 30 is one of 0, 1, 2, 3.                 *)
C6_LearnOfGame ==
    BeforeBook =>
        \A i \in 1..Len(calls) :
            \A n \in (calls[i].first + 1)..calls[i].last :
                /\ kTable[n].learn.hi = calls[i].result % 4
                /\ kTable[n].learn.lo = (calls[i].gameOfs \div 8) % Pow30
                /\ kTable[n].learn.hi \in 0..3

(* A decided game that starts at byte 8 or later has given a record.       *)
C6_Witness ==
    /\ BeforeBook
    /\ \E i \in 1..Len(calls) :
          /\ calls[i].gameOfs >= 8
          /\ calls[i].result # 3
          /\ calls[i].last > calls[i].first

(* The text of the input, by lexical piece.                                *)
Chunk(v) == Vocabulary[chunks[v]]

Off(v) == Len(Bytes(SubSeq(chunks, 1, v - 1)))

(* Inputs of tags, moves and results only, every result closed by its      *)
(* newline: in these every tag stands in a game's tag section, and a tag   *)
(* after move text starts the next game.                                   *)
Plain ==
    /\ input = Bytes(chunks)
    /\ \A v \in 1..Len(chunks) :
          Chunk(v) \in {EventChunk, VariantChunk, MoveAChunk, MoveBChunk,
                        NullChunk, StarChunk, GameChunk}

(* The offset at which parsing resumes after the game of the tag at piece  *)
(* v: the next Event tag, or the end of the input.                         *)
NextEventOff(v) ==
    LET later == {w \in (v + 1)..Len(chunks) : Chunk(w) = EventChunk}
    IN  IF later = {} THEN Len(input)
        ELSE Off(CHOOSE w \in later : \A x \in later : w <= x)

(* C7: a game whose tag section holds a Variant tag other than "Standard"  *)
(* is skipped, wherever the tag stands and however the game before it      *)
(* ended: from the tag to the next Event tag the replayer is never         *)
(* invoked, so no record is emitted and no game is counted.                *)
C7_VariantGameSkipped ==
    (BeforeBook /\ Plain) =>
        \A v \in 1..Len(chunks) :
            Chunk(v) = VariantChunk =>
                \A i \in 1..Len(calls) :
                    ~(calls[i].at > Off(v) /\ calls[i].at <= NextEventOff(v))

(* The records a replay of the pending game has to append.                 *)
Pending(mv, fenBuf, ofs, res) ==
    LET pos == StartPos(fenBuf)
        toks == Tokens(mv)
        em == Emitting(pos, toks)
    IN  [n \in 1..Len(em) |->
           [key |-> PosAfter(pos, toks, em[n] - 1).key,
            move |-> to_polyglot(MoveOf(pos, toks, em[n])),
            weight |-> 1,
            learn |-> [hi |-> res % 4, lo |-> (ofs \div 8) % Pow30]]]

(* The parser stands on a `[` that starts the next game while a game       *)
(* without result is pending.                                              *)
MissingResultMet ==
    /\ Running
    /\ \/ CurStep = "MISSING_RESULT"
       \/ CurStep = "TAG_IN_BRACE" /\ StrNCmp(Cur, data, EventPat) = "eq"

(* While parsing, the bytes of the moves buffer are those of the input     *)
(* between the last finalisation and the cursor.                           *)
OwnTokens ==
    pc = "parse" =>
    \A k \in 1..Len(moves) :
        /\ movesSrc[k] < data
        /\ movesSrc[k] >= (IF calls = <<>> THEN 0 ELSE calls[Len(calls)].at)
        /\ moves[k] # NUL => moves[k] = input[movesSrc[k] + 1]

(* C8: on a `[` met in NEXT_MOVE or NEXT_SAN, or an `[Event ` met in an     *)
(* unclosed brace comment, the pending game is finalised exactly once with *)
(* the tokens and the result it has so far, the accumulators are reset,    *)
(* and the parser goes on in the tag of the next game, which shares no     *)
(* token with the finalised one; the games total counts the game.          *)
C8_MissingResult ==
    [][ /\ OwnTokens
        /\ MissingResultMet =>
             /\ pc' = "parse"
             /\ Len(calls') = Len(calls) + 1
             /\ gameCnt' = gameCnt + 1
             /\ kTable' = kTable \o Pending(moves, fen, gameOfs, result)
             /\ moves' = <<>> /\ curMove' = 0 /\ fen' = <<>>
             /\ result' = 3 /\ stm' = WHITE /\ gameOfs' = data
             /\ state' = "TAG" /\ stateStack' # <<>>
             /\ Last(stateStack') = "HEADER"
             /\ data' = data + 1 ]_vars

(* The state before the end-of-input test of parse_pgn.                    *)
AtEnd == pc = "parse" /\ data >= Len(input)

GamePending == state # "HEADER" /\ state # "SKIP_GAME"

Totals(q) == [games |-> q.gameCnt, records |-> q.kTable]

(* The totals parse_pgn ends with from here, and those it ends with when   *)
(* the input has one more byte, a newline; runs a fault ends have none.    *)
TotalsAsIs ==
    {Totals(q) : q \in {r \in EndOfInput(Cur) : r.pc = "done"}}

TotalsWithNewline ==
    LET p == [Cur EXCEPT !.input = Append(@, "\n")]
        after == {q \in StepSet(p) : q.pc = "parse"}
    IN  {Totals(r) : r \in {x \in UNION {EndOfInput(q) : q \in after} :
                              x.pc = "done"}}

C10_RejectedTokenEndsGame ==
    BeforeBook =>
        /\ gameCnt = Len(calls)
        /\ \A i \in 1..Len(calls) :
              calls[i].wrong =>
                 LET c == calls[i]
                     toks == Tokens(c.moves)
                     acc == Accepted(StartPos(c.fen), toks)
                 IN  /\ acc < Len(toks)
                     /\ Emitted(c) = Expected(c)
                     /\ c.last - c.first <= acc
                     /\ \A j \in (i + 1)..Len(calls) :
                           /\ calls[j].first = calls[j - 1].last
                           /\ Emitted(calls[j]) = Expected(calls[j])
                           /\ \A k \in 1..Len(calls[j].moves) :
                                 /\ calls[j].src[k] >= c.at
                                 /\ calls[j].moves[k] # NUL =>
                                      calls[j].moves[k]
                                         = input[calls[j].src[k] + 1]

(* A game of three tokens whose second is rejected has kept its first      *)
(* record, and the game after it has given its own.                        *)
C10_Witness ==
    /\ BeforeBook
    /\ Len(calls) >= 2
    /\ calls[1].wrong
    /\ Len(Tokens(calls[1].moves)) = 2
    /\ calls[1].last = 1
    /\ calls[2].last = 2
    /\ ~calls[2].wrong

-----------------------------------------------------------------------------
(* The table after the post-processing of make_book.                       *)

PostDone == pc \in {"sorted", "written"}

(* The indices of the maximal run of equal key that holds index i.         *)
RunOf(t, i) ==
    {j \in 1..Len(t) :
        \A k \in (IF i < j THEN i ELSE j)..(IF i < j THEN j ELSE i) :
            t[k].key = t[i].key}

IsLastRun(t, i) == Len(t) \in RunOf(t, i)

MultIn(t, i) == Cardinality({j \in RunOf(t, i) : t[j].move = t[i].move})

RECURSIVE SumWeights(_, _)
SumWeights(t, S) ==
    IF S = {} THEN 0
    ELSE LET j == CHOOSE x \in S : TRUE
         IN  t[j].weight + SumWeights(t, S \ {j})

(* One index per distinct move of the run of i: the first with that move.  *)
FirstOfMove(t, i) ==
    {j \in RunOf(t, i) :
        \A k \in RunOf(t, i) : t[k].move = t[j].move => j <= k}

(* C2: after the post-processing the records are in non-decreasing key     *)
(* order and, within every run of equal key, in non-increasing weight      *)
(* order, equal weights in non-increasing move order.                      *)
C2_KeyWeightMoveOrder ==
    PostDone =>
        \A i \in 1..(Len(kTable) - 1) :
            /\ kTable[i].key <= kTable[i + 1].key
            /\ kTable[i].key = kTable[i + 1].key =>
                  \/ kTable[i].weight > kTable[i + 1].weight
                  \/ /\ kTable[i].weight = kTable[i + 1].weight
                     /\ kTable[i].move >= kTable[i + 1].move

(* C3: after the post-processing every record of a run of three or more    *)
(* records of equal key has the weight multiplicity * 0xFFFF / run length, *)
(* and every record of a run of one or two still has weight 1.             *)
C3_WeightsOfRuns ==
    PostDone =>
        \A i \in 1..Len(kTable) :
            LET len == Cardinality(RunOf(kTable, i)) IN
            kTable[i].weight =
                IF len >= 3 THEN (MultIn(kTable, i) * MaxWeight) \div len
                ELSE 1

RunHeads(t) ==
    LET heads == {i \in 1..Len(t) :
                     i = 1 \/ t[i].key # t[i - 1].key
                           \/ t[i].move # t[i - 1].move}
        hs == SetToSeq(heads)
    IN  [n \in 1..Len(hs) |-> t[hs[n]]]

(* C5: with full = false the file holds the first entry of every maximal   *)
(* run of consecutive entries of equal key and move, the first entry of    *)
(* the table among them, and no other entry; with full = true it holds     *)
(* every entry, in table order.                                            *)
C5_WritesRunHeads ==
    pc = "written" =>
        /\ file = IF full THEN kTable ELSE RunHeads(kTable)
        /\ kTable # <<>> => (file # <<>> /\ file[1] = kTable[1])

(* A table with a repeated (key, move) and a second move of the same key   *)
(* has been written without the repetition.                                *)
C5_Witness ==
    /\ pc = "written"
    /\ ~full
    /\ Len(file) >= 2
    /\ Len(file) < Len(kTable)
    /\ file[1].key = file[2].key

-----------------------------------------------------------------------------
(* Result tokens.  One game of one or two plies, its result written in     *)
(* one of the spellings of the termination marker, the rest of the file    *)
(* after it.                                                               *)

WhitePly == MoveAChunk
BlackPly == MoveAChunk \o MoveBChunk

ResultCases ==
    {[text |-> <<"1", "-", "0">>, code |-> 0],
     [text |-> <<"0", "-", "1">>, code |-> 1],
     [text |-> <<"1", "/", "2", "-", "1", "/", "2">>, code |-> 2],
     [text |-> <<"*">>, code |-> 3],
     [text |-> <<"1", " ", "-", " ", "0">>, code |-> 0],
     [text |-> <<"0", " ", "-", " ", "1">>, code |-> 1],
     [text |-> <<"1", "/", "2", " ", "-", " ", "1", "/", "2">>, code |-> 2]}

ResultGame(ply, rc) == ply \o rc.text \o <<"\n">>

InitResult ==
    /\ chunks \in TailSeqs
    /\ \E ply \in {WhitePly, BlackPly}, rc \in ResultCases :
          InitWith(ResultGame(ply, rc) \o Bytes(chunks))

SpecResult == InitResult /\ [][NextParse]_vars

IsPrefix(s, t) == Len(s) <= Len(t) /\ SubSeq(t, 1, Len(s)) = s

(* The moves buffer after the plies of the game: each SAN token and its    *)
(* terminator.                                                             *)
PlyTokens(ply) ==
    IF ply = WhitePly THEN <<"a", NUL>> ELSE <<"a", NUL, "b", NUL>>

(* C11: the game that ends in a termination marker is handed to the        *)
(* replayer with the result code of the marker (1-0 is 0, 0-1 is 1,        *)
(* 1/2-1/2 is 2, * is 3), after a white move and after a black move, with  *)
(* and without spaces around the dash, and with the SAN tokens of its      *)
(* moves only.                                                             *)
C11_ResultOfMarker ==
    \A ply \in {WhitePly, BlackPly}, rc \in ResultCases :
        (/\ IsPrefix(ResultGame(ply, rc), input)
         /\ calls # <<>>)
        => /\ calls[1].result = rc.code
           /\ calls[1].moves = PlyTokens(ply)

-----------------------------------------------------------------------------
(* Variations.  A game of one or two plies followed by one complete         *)
(* variation, the rest of the file after it; the game alone or after a     *)
(* game that ended in an unclosed brace comment.                           *)

Nested(n, inner) ==
    Repeat(<<"(">>, n) \o inner \o Repeat(<<")">>, n)

Variations ==
    {Nested(1, <<"a">>),
     Nested(2, <<"a", " ", "{", ")", "[", "}", "$", "1">>),
     Nested(StackSize, <<"a">>),
     Nested(StackSize, <<"{", "a", "}">>)}

(* The text before the variation, the state and the stack the parser has   *)
(* after it, and the moves buffer and move count of the game.              *)
VariationHeads ==
    {[text |-> WhitePly, state |-> "NEXT_SAN", stack |-> <<>>,
      tokens |-> PlyTokens(WhitePly), cnt |-> 1],
     [text |-> BlackPly, state |-> "NEXT_MOVE", stack |-> <<>>,
      tokens |-> PlyTokens(BlackPly), cnt |-> 2],
     [text |-> LeakGame \o WhitePly, state |-> "NEXT_SAN",
      stack |-> <<"NEXT_SAN">>, tokens |-> PlyTokens(WhitePly), cnt |-> 2]}

InitNest ==
    /\ chunks \in TailSeqs
    /\ \/ InitWith(Bytes(chunks))
       \/ \E h \in VariationHeads, v \in Variations :
             InitWith(h.text \o v \o Bytes(chunks))

SpecNest == InitNest /\ [][NextParse]_vars

(* C12: from the ( met in NEXT_MOVE or NEXT_SAN to its matching ), for     *)
(* parentheses nested at most StackSize deep with nested parentheses and   *)
(* brace comments inside, the moves buffer and the move count stay what    *)
(* they were at the (, no push finds the stack full, and after the         *)
(* matching ) the parser is in the state and at the stack depth it had at  *)
(* the (.  The move count is the file's total (stats.moves).               *)
C12_VariationSkipped ==
    \A h \in VariationHeads, v \in Variations :
        LET open == Len(h.text)
            close == Len(h.text) + Len(v)
        IN  (/\ IsPrefix(h.text \o v, input)
             /\ pc \in {"parse", "fault"}
             /\ data >= open
             /\ data <= close)
            => /\ data < close => pc = "parse"
               /\ Len(stateStack) <= StackSize
               /\ moves = h.tokens
               /\ moveCnt = h.cnt
               /\ data \in {open, close}
                     => (state = h.state /\ stateStack = h.stack)

-----------------------------------------------------------------------------
(* The book probe.                                                         *)

MaxLimit == 2       \* largest `limit` argument of probe_key
MaxSkip == 1        \* largest `skip` argument of probe_key

Pow29 == 536870912  \* 1 << 29

(* read_entry past the end of the file: every ifs.get() returns -1, so     *)
(* the fields are 0xFFFEFEFEFEFEFEFF, 0xFEFF, 0xFEFF and 0xFFFEFEFF.  The  *)
(* key is outside the abstract key space.                                  *)
EofEntry ==
    [key |-> KeyMod, move |-> 65279, weight |-> 65279,
     learn |-> [hi |-> 3, lo |-> 1073676031]]

(* read_entry(e, ifs), the stream standing before record i (from 1).       *)
read_entry(f, i) == IF i <= Len(f) THEN f[i] ELSE EofEntry

(* (e.learn & 0x3FFFFFFF) << 3.  e.learn is 32 bits wide and so is the     *)
(* shift, which drops the bits 29 and above of the masked field.  The      *)
(* value is a multiple of 8 and is kept divided by 8.                      *)
Decode(lrn) == lrn.lo % Pow29

(* The inner loop of probe_key: it reads on while the move of the entry    *)
(* read is the move of the group, and makes no test of the key.            *)
RECURSIVE GroupLoop(_, _, _, _, _, _, _)
GroupLoop(f, i, e, results, pgn_ofs, skip_counter, limit) ==
    LET ofs2 == IF skip_counter = 0 /\ Len(pgn_ofs) < limit
                THEN Append(pgn_ofs, Decode(e.learn)) ELSE pgn_ofs
        sc2 == IF skip_counter > 0 THEN skip_counter - 1 ELSE 0
        r2 == [results EXCEPT ![e.learn.hi] = @ + 1]
        n == read_entry(f, i)
    IN  IF n.move = e.move
        THEN GroupLoop(f, i + 1, n, r2, ofs2, sc2, limit)
        ELSE [e |-> n, i |-> i + 1, results |-> r2, pgn_ofs |-> ofs2]

(* The outer loop: one entry of json_moves per pass, while the entry read  *)
(* last has the probed key.                                                *)
RECURSIVE KeyLoop(_, _, _, _, _, _)
KeyLoop(f, i, e, key, limit, skip) ==
    LET g == GroupLoop(f, i, e, [b \in 0..3 |-> 0], <<>>, skip, limit)
        entry == [move |-> e.move, weight |-> e.weight,
                  games |-> g.results[0] + g.results[1]
                            + g.results[2] + g.results[3],
                  wins |-> g.results[0], losses |-> g.results[1],
                  draws |-> g.results[2], pgn_ofs |-> g.pgn_ofs]
    IN  <<entry>> \o (IF g.e.key = key
                      THEN KeyLoop(f, g.i, g.e, key, limit, skip)
                      ELSE <<>>)

(* probe_key(json_moves, fName, ofs, limit, skip); ofs is given as the     *)
(* index of the record it addresses.                                       *)
probe_key(f, ofs, limit, skip) ==
    LET e == read_entry(f, ofs) IN
    KeyLoop(f, ofs + 1, e, e.key, limit, skip)

(* The offset the book reader hands to probe_key is that of the first      *)
(* record of a key of the file.                                            *)
FirstOfKey(f) == {i \in 1..Len(f) : i = 1 \/ f[i].key # f[i - 1].key}

Step_ProbeKey ==
    /\ pc = "written"
    /\ \E ofs \in FirstOfKey(file), limit \in 0..MaxLimit, skip \in 0..MaxSkip :
          /\ probe' = [ofs |-> ofs, limit |-> limit, skip |-> skip]
          /\ json_moves' = probe_key(file, ofs, limit, skip)
    /\ pc' = "probed"
    /\ UNCHANGED <<input, chunks, data, state, stateStack, fen, moves,
                   movesSrc, curMove, moveCnt, gameCnt, gameOfs, result, stm,
                   kTable, calls, diag, file, full>>

(* The probe of a book that make_book has written, in either mode, from a  *)
(* table of at most MaxRecs records.                                       *)
NextProbe == NextBook \/ Step_ProbeKey

SpecProbe == InitBook /\ [][NextProbe]_vars

(* The records of the probed key: the contiguous run that starts at ofs.   *)
ProbedKey == file[probe.ofs].key

ProbedRun ==
    {i \in probe.ofs..Len(file) :
        \A j \in probe.ofs..i : file[j].key = ProbedKey}

(* The first records of the groups of consecutive equal moves of the run.  *)
GroupHeads ==
    SetToSeq({i \in ProbedRun :
                 i = probe.ofs \/ file[i].move # file[i - 1].move})

OfKeyAndMove(mv) ==
    {i \in 1..Len(file) : file[i].key = ProbedKey /\ file[i].move = mv}

(* C13: probe_key reports one entry per group of consecutive equal-move    *)
(* records of the run of the probed key; the games, wins, losses and draws *)
(* of an entry are the numbers of records of the file with the probed key  *)
(* and the entry's move, in all and with result 0, 1 and 2; and every      *)
(* sampled offset is that of one of those records.                         *)
C13_ProbeCountsOwnKey ==
    pc = "probed" =>
        /\ Len(json_moves) = Len(GroupHeads)
        /\ \A n \in 1..Len(json_moves) :
              n <= Len(GroupHeads) =>
              LET e == json_moves[n]
                  own == OfKeyAndMove(e.move)
                  Bucket(b) == Cardinality({i \in own : file[i].learn.hi = b})
              IN  /\ e.move = file[GroupHeads[n]].move
                  /\ e.games = Cardinality(own)
                  /\ e.wins = Bucket(0)
                  /\ e.losses = Bucket(1)
                  /\ e.draws = Bucket(2)
                  /\ Len(e.pgn_ofs) <= Cardinality(own)
                  /\ \A k \in 1..Len(e.pgn_ofs) :
                        \E i \in own : e.pgn_ofs[k] = Decode(file[i].learn)

-----------------------------------------------------------------------------
(* Game offsets beyond 32 bits.  gameOfs is a size_t; an offset g of a     *)
(* file of up to 8 GiB is kept as [w |-> g >> 3, r |-> g & 7], and a       *)
(* decoded offset divided by 8 as in Decode.  One game of one move, found  *)
(* at such an offset, is replayed, the table is written and then probed.   *)

WideWords == {0, 1, Pow29 - 1, Pow29, Pow29 + 1, Pow30 - 1}

WideOffsets == [w : WideWords, r : {0, 1, 7}]

(* learn of parse_game for such a gameOfs.                                 *)
WideLearn(res, g) == [hi |-> res % 4, lo |-> g.w % Pow30]

InitWide ==
    /\ chunks = <<>>
    /\ \E g \in WideOffsets, res \in 0..3 :
          LET q == [ParserStart(<<>>) EXCEPT !.moves = <<"a", NUL>>,
                                             !.movesSrc = <<0, 0>>,
                                             !.gameOfs = g,
                                             !.result = res,
                                             !.pc = "emit"] IN
          /\ input = q.input
          /\ data = q.data
          /\ state = q.state
          /\ stateStack = q.stateStack
          /\ fen = q.fen
          /\ moves = q.moves
          /\ movesSrc = q.movesSrc
          /\ curMove = q.curMove
          /\ moveCnt = q.moveCnt
          /\ gameCnt = q.gameCnt
          /\ gameOfs = q.gameOfs
          /\ result = q.result
          /\ stm = q.stm
          /\ kTable = q.kTable
          /\ calls = q.calls
          /\ diag = q.diag
          /\ pc = q.pc
    /\ file = <<>>
    /\ full = FALSE
    /\ probe = NoProbe
    /\ json_moves = <<>>

(* parse_game on the pending game, from the start position.                *)
Step_ParseGameWide ==
    /\ pc = "emit"
    /\ kTable' = ReplayLoop(moves, 0, RootPos, 0, kTable,
                            WideLearn(result, gameOfs)).kTable
    /\ pc' = "done"
    /\ UNCHANGED <<input, chunks, data, state, stateStack, fen, moves,
                   movesSrc, curMove, moveCnt, gameCnt, gameOfs, result, stm,
                   calls, diag, file, full, probe, json_moves>>

NextWide == Step_ParseGameWide \/ NextProbe

SpecWide == InitWide /\ [][NextWide]_vars

(* C14: for a game at offset g, 0 <= g < 2^33, every offset the probe      *)
(* decodes from a record of the game is g with its three low bits          *)
(* cleared: divided by 8 it is g >> 3.                                     *)
C14_DecodedOffset ==
    pc = "probed" =>
        \A n \in 1..Len(json_moves) :
            \A k \in 1..Len(json_moves[n].pgn_ofs) :
                json_moves[n].pgn_ofs[k] = gameOfs.w

-----------------------------------------------------------------------------
(* Game offsets.                                                           *)

(* The offset after the terminator of the game of call i - 1: the byte     *)
(* after the newline of its result line, or the `[` that ended it.         *)
AfterPrevious(i) ==
    IF i = 1 THEN 0
    ELSE IF calls[i - 1].kind = "END_GAME" THEN calls[i - 1].at + 1
    ELSE calls[i - 1].at

(* The first byte of the text of the game finalised at offset at, the      *)
(* text from b on belonging to no earlier game: b itself, or, when the     *)
(* game at b is skipped for a Variant tag of its tag section, the start    *)
(* of the game at the Event tag that ends the skipped text.                *)
RECURSIVE StartOfGame(_, _)
StartOfGame(b, at) ==
    LET vs == {v \in 1..Len(chunks) :
                  /\ Chunk(v) = VariantChunk
                  /\ Off(v) >= b
                  /\ Off(v) < at
                  /\ \A u \in 1..(v - 1) :
                        Off(u) >= b => Chunk(u) \in {EventChunk, VariantChunk}}
        ws == {w \in 1..Len(chunks) :
                  /\ Chunk(w) = EventChunk
                  /\ Off(w) < at
                  /\ \E v \in vs : v < w}
    IN  IF ws = {} THEN b
        ELSE StartOfGame(Off(CHOOSE w \in ws : \A x \in ws : w <= x), at)

(* C15: the gameOfs a game is finalised with is the offset of the first    *)
(* byte of the game's text, whether the game before it ended by a result   *)
(* line, by a missing result or was skipped for its Variant tag; and the   *)
(* offset decoded from the learn of the game's records lies in the game's  *)
(* text.                                                                   *)
C15_OffsetInsideGame ==
    (BeforeBook /\ Plain) =>
        \A i \in 1..Len(calls) :
            LET start == StartOfGame(AfterPrevious(i), calls[i].at)
                decoded == 8 * Decode(learn(calls[i].result, calls[i].gameOfs))
            IN  /\ calls[i].gameOfs = start
                /\ calls[i].last > calls[i].first
                      => (decoded >= start /\ decoded <= calls[i].at)

-----------------------------------------------------------------------------
(* The moves buffer at the invocations of the replayer.                    *)

(* The step the parser is about to take hands the pending game to          *)
(* parse_game: END_GAME on a newline, MISSING_RESULT, TAG_IN_BRACE on an   *)
(* Event tag, the test after the loop.                                     *)
Invoking ==
    \/ /\ Running
       /\ \/ CurStep = "END_GAME" /\ input[data + 1] = "\n"
          \/ CurStep = "MISSING_RESULT"
          \/ /\ CurStep = "TAG_IN_BRACE"
             /\ "eq" \in Outcomes(StrNCmp(Cur, data, EventPat))
    \/ AtEnd /\ GamePending /\ moves # <<>>

(* A concatenation of non-empty tokens, each followed by one NUL.          *)
WellFormed(mv) ==
    mv # <<>> =>
        /\ mv[1] # NUL
        /\ mv[Len(mv)] = NUL
        /\ \A i \in 1..(Len(mv) - 1) : ~(mv[i] = NUL /\ mv[i + 1] = NUL)

(* C16: whenever the replayer is invoked, [moves, end) is a concatenation  *)
(* of non-empty tokens each followed by exactly one NUL, and end equals    *)
(* curMove.                                                                *)
C16_BufferWellFormed ==
    Invoking => (WellFormed(moves) /\ curMove = Len(moves))

-----------------------------------------------------------------------------
(* The result variable.                                                    *)

(* C17: result is one of 0, 1, 2, 3 in every state and differs from 3      *)
(* only while the parser is in RESULT, so it is 3 wherever START_RESULT    *)
(* or CASTLE_OR_RESULT is dispatched (the asserts); and a result other     *)
(* than 3 stays what it is until END_GAME sets it back to 3.               *)
C17_ResultOnlyInResult ==
    /\ [](/\ result \in 0..3
          /\ result # 3 => state = "RESULT"
          /\ (Running /\ CurStep \in {"START_RESULT", "CASTLE_OR_RESULT"})
                => result = 3)
    /\ [][result # 3 =>
             \/ result' = result
             \/ CurStep = "END_GAME" /\ result' = 3]_vars

(* A game has been finalised by END_GAME with a result other than 3 and    *)
(* the parser is in the header of the next game.                           *)
C17_Witness ==
    /\ pc = "parse"
    /\ state = "HEADER"
    /\ result = 3
    /\ calls # <<>>
    /\ calls[Len(calls)].kind = "END_GAME"
    /\ calls[Len(calls)].result \in {0, 1, 2}
    /\ calls[Len(calls)].at = data - 1

-----------------------------------------------------------------------------
(* The side to move.                                                       *)

(* Inputs of tags, the FEN tag among them, moves and results.              *)
PlainOrFen ==
    /\ input = Bytes(chunks)
    /\ \A v \in 1..Len(chunks) :
          Chunk(v) \in {EventChunk, VariantChunk, FenChunk, MoveAChunk,
                        MoveBChunk, NullChunk, StarChunk, GameChunk}

(* The first byte of the text of the game the cursor is in.                *)
CurrentGameStart == StartOfGame(AfterPrevious(Len(calls) + 1), data)

(* The game the cursor is in has a FEN tag with ` b `, read to its end.    *)
HasBlackFen ==
    \E v \in 1..Len(chunks) :
        /\ Chunk(v) = FenChunk
        /\ Off(v) >= CurrentGameStart
        /\ Off(v) + Len(FenChunk) <= data

(* The colour of the token of the game that is being read or is read       *)
(* next: that of the first token, changed once by every completed token.   *)
Completed == Cardinality({i \in 1..Len(moves) : moves[i] = NUL})

TokenColour ==
    ((IF HasBlackFen THEN BLACK ELSE WHITE) + Completed) % 2

(* C18: in a game whose FEN tag contains ` b ` stm is BLACK when the first *)
(* SAN token is read and the END_MOVE of that token goes to NEXT_MOVE and  *)
(* sets stm to WHITE; in every game stm is the colour of the token read,   *)
(* alternating from token to token, and END_MOVE goes to NEXT_SAN after a  *)
(* white token and to NEXT_MOVE after a black one.                         *)
C18_SideToMove ==
    /\ []((PlainOrFen /\ pc = "parse" /\ state = "READ_SAN")
             => stm = TokenColour)
    /\ [][(PlainOrFen /\ Running /\ CurStep = "END_MOVE" /\ pc' = "parse")
             => /\ state' = IF TokenColour = WHITE THEN "NEXT_SAN"
                            ELSE "NEXT_MOVE"
                /\ stm' = 1 - TokenColour]_vars

-----------------------------------------------------------------------------
(* Reads outside the mapped region.                                        *)

(* The tests of OPEN_TAG read a byte outside [0, size): *(data + 1) and    *)
(* the strncmp on `FEN "`, on `Variant ` and, after it, on `"Standard"`.   *)
OpenTagReadsOutside ==
    LET fenR == StrNCmp(Cur, data + 1, FenPat)
        varR == StrNCmp(Cur, data + 1, VariantPat)
        stdR == StrNCmp(Cur, data + 9, StandardPat)
    IN  \/ fenR = "oob"
        \/ fenR = "ne" /\ (varR = "oob" \/ (varR = "eq" /\ stdR = "oob"))

(* The look-behinds: data - 1 of GAME_START, data - 1 and data - 2 of      *)
(* get_result.                                                             *)
LookBehindOutside ==
    \/ CurStep = "GAME_START" /\ data - 1 < 0
    \/ /\ CurStep \in {"START_RESULT", "CASTLE_OR_RESULT"}
       /\ -1 \in get_result(Cur, data)

(* The step the parser is about to take reads a byte outside [0, size).    *)
ReadsOutside ==
    /\ Running
    /\ \/ CurStep = "OPEN_TAG" /\ OpenTagReadsOutside
       \/ CurStep = "CASTLE_OR_RESULT" /\ ~InRange(Cur, data + 2)
       \/ CurStep = "TAG_IN_BRACE" /\ StrNCmp(Cur, data, EventPat) = "oob"
       \/ CurStep = "GAME_START" /\ StrNCmp(Cur, data - 1, EventPat) = "oob"
       \/ CurStep = "FAIL" /\ data + ErrorWindow > Len(input)
       \/ LookBehindOutside

(* The parser on a file that ends anywhere: every prefix of an input of    *)
(* at most MaxTail pieces.                                                 *)
InitCut ==
    /\ chunks \in TailSeqs
    /\ \E n \in 0..Len(Bytes(chunks)) :
          InitWith(SubSeq(Bytes(chunks), 1, n))

SpecCut == InitCut /\ [][NextParse]_vars

(* C19: every byte the parser reads lies in [0, size) of the mapped        *)
(* region: no look-ahead of OPEN_TAG, CASTLE_OR_RESULT, TAG_IN_BRACE or    *)
(* GAME_START, no look-behind of GAME_START or get_result and no other     *)
(* read of a step addresses a byte before the start or at or after the     *)
(* end of the input.                                                       *)
C19_ReadsInRange == ~ReadsOutside

-----------------------------------------------------------------------------
(* Unmatched closing delimiters.  An input of at most MaxTail pieces with  *)
(* one closing delimiter put in before, between or after the pieces.       *)

Closers == {<<>>, <<"]">>, <<"}">>, <<")">>}

InitPop ==
    /\ chunks \in TailSeqs
    /\ \E k \in 0..Len(chunks), u \in Closers :
          InitWith(Bytes(SubSeq(chunks, 1, k)) \o u
                   \o Bytes(SubSeq(chunks, k + 1, Len(chunks))))

SpecPop == InitPop /\ [][NextParse]_vars

(* The states whose rows hold POP_STATE; FEN_TAG leads to TAG.             *)
PopStates ==
    {"TAG", "FEN_TAG", "BRACE_COMMENT", "VARIATION",
     "NUMERIC_ANNOTATION_GLYPH"}

(* C20: whenever the parser is in TAG, FEN_TAG, BRACE_COMMENT, VARIATION   *)
(* or NUMERIC_ANNOTATION_GLYPH the stack holds at least one entry, so      *)
(* POP_STATE is never dispatched on an empty stack, unmatched closing      *)
(* delimiters in the input included.                                       *)
C20_NoPopOnEmptyStack ==
    /\ state \in PopStates => Len(stateStack) >= 1
    /\ (Running /\ CurStep = "POP_STATE") => state \in PopStates

(* A closing delimiter met outside its scope has been passed and a scope   *)
(* opened after it has been closed by POP_STATE.                           *)
C20_Witness ==
    /\ pc = "parse"
    /\ stateStack = <<>>
    /\ data >= 3
    /\ input[data] \in {"]", "}", ")"}
    /\ \E i \in 1..(data - 2) :
          /\ input[i] \in {"]", "}", ")"}
          /\ input[i + 1] \in {"[", "{", "("}

-----------------------------------------------------------------------------
(* The stack at the start of a game.                                       *)

(* A new game has just begun: the step before was END_GAME on the newline  *)
(* of a result line, or the `]` of the first tag after a MISSING_RESULT    *)
(* has just been passed.                                                   *)
NewGameBegins ==
    /\ pc = "parse"
    /\ calls # <<>>
    /\ LET c == calls[Len(calls)] IN
       \/ c.kind = "END_GAME" /\ data = c.at + 1
       \/ /\ c.kind = "MISSING_RESULT"
          /\ state = "HEADER"
          /\ data > c.at + 1
          /\ input[data] = "]"
          /\ \A i \in (c.at + 1)..(data - 1) : input[i] # "]"

(* The step the parser is about to take pushes a state.                    *)
Pushing ==
    /\ Running
    /\ \/ CurStep \in {"OPEN_TAG", "OPEN_BRACE_COMMENT", "OPEN_VARIATION",
                       "START_NAG", "MISSING_RESULT"}
       \/ /\ CurStep = "TAG_IN_BRACE"
          /\ "eq" \in Outcomes(StrNCmp(Cur, data, EventPat))

(* C21: the stack is empty whenever a new game begins, after END_GAME and  *)
(* after the `]` of the first tag that follows a MISSING_RESULT, reached   *)
(* from NEXT_MOVE or NEXT_SAN or through TAG_IN_BRACE; so no push finds    *)
(* the stack full, whatever the number of games.                           *)
C21_StackEmptyAtGameStart ==
    /\ NewGameBegins => stateStack = <<>>
    /\ Pushing => Len(stateStack) < StackSize


-----------------------------------------------------------------------------
(* C22: per-game accumulators at the start of a game.                      *)

(* fenEnd == fen, stm == WHITE, end == moves, result == 3.                 *)
Fresh(f, s, mv, res) == f = <<>> /\ s = WHITE /\ mv = <<>> /\ res = 3

(* The step leaves SKIP_GAME for HEADER at a `[Event `.                    *)
GameStartTaken ==
    /\ Running
    /\ CurStep = "GAME_START"
    /\ pc' = "parse"
    /\ state' = "HEADER"

(* The step finalises a game: END_GAME on a newline, MISSING_RESULT, or    *)
(* TAG_IN_BRACE falling through into it.                                   *)
GameFinalised ==
    /\ Running
    /\ CurStep \in {"END_GAME", "MISSING_RESULT", "TAG_IN_BRACE"}
    /\ pc' = "parse"
    /\ Len(calls') > Len(calls)

(* C22: whenever parsing of a game starts (at the start of the input,      *)
(* after END_GAME, after MISSING_RESULT, or when GAME_START returns to     *)
(* HEADER after a game skipped for its Variant tag) the fen buffer is      *)
(* empty, stm is WHITE, the moves buffer is empty and result is 3.         *)
C22_AccumulatorsFresh ==
    /\ [](pc = "parse" /\ data = 0 => Fresh(fen, stm, moves, result))
    /\ [][GameFinalised \/ GameStartTaken
             => Fresh(fen', stm', moves', result')]_vars


-----------------------------------------------------------------------------
(* C23: the fixed-size buffers fen[256], moves[1024 * 8] and states[1024]. *)
(* The parser on inputs that fill one buffer to its capacity or one byte   *)
(* more, next to the short inputs of TailSeqs.                             *)

(* n repetitions of the bytes s.                                           *)
Cycle(s, n) == [i \in 1..(n * Len(s)) |-> s[((i - 1) % Len(s)) + 1]]

PairChunk == <<"1", ".", "a", " ", "b", " ">>

(* A FEN tag of n bytes of text.                                           *)
FenFill(n) ==
    <<"[", "F", "E", "N", " ", "\"">> \o Cycle(<<"x">>, n) \o <<"\"", "]">>

(* One SAN token of n bytes.                                               *)
MovesFill(n) == <<"1", ".">> \o Cycle(<<"a">>, n) \o <<" ">>

(* A game of 2 * n plies, and one of 2 * n plies after a FEN tag with      *)
(* Black to move.                                                          *)
StatesFill(n) == Cycle(PairChunk, n)

StatesFillFen(n) ==
    FenChunk \o <<"1", ".", "b", " ">> \o Cycle(PairChunk, n - 1)
             \o <<"1", ".", "a", " ">>

FillInputs ==
    {FenFill(FenSize - 1), FenFill(FenSize),
     MovesFill(MovesSize - 1), MovesFill(MovesSize),
     StatesFill(StatesSize \div 2), StatesFill(StatesSize \div 2 + 1),
     StatesFillFen(StatesSize \div 2)}

InitFill ==
    /\ chunks \in TailSeqs
    /\ \/ InitWith(Bytes(chunks))
       \/ chunks = <<>> /\ \E inp \in FillInputs : InitWith(inp)

SpecFill == InitFill /\ [][NextParse]_vars

(* StateInfo slots the replayer used in the logged call c.                 *)
SlotsUsed(c) == parse_game(c.moves, <<>>, c.fen, c.gameOfs, c.result).st

(* The run has ended in a write past the end of a buffer.                  *)
BufferOverrun ==
    /\ pc = "fault"
    /\ \/ /\ data < Len(input)
          /\ CurStep \in {"READ_FEN", "CLOSE_FEN_TAG"}
          /\ Len(fen) >= FenSize
       \/ /\ data < Len(input)
          /\ CurStep \in {"START_READ_SAN", "READ_MOVE_CHAR", "END_MOVE"}
          /\ Len(moves) >= MovesSize
       \/ /\ calls # <<>>
          /\ calls[Len(calls)].at = data
          /\ SlotsUsed(calls[Len(calls)]) > StatesSize

(* C23: for every input no buffer is written past its capacity: end -      *)
(* moves never exceeds 8192, fenEnd - fen never exceeds 256, and the       *)
(* replayer never uses more than 1024 StateInfo slots for one game.        *)
C23_BuffersWithinCapacity ==
    /\ Len(moves) <= MovesSize
    /\ Len(fen) <= FenSize
    /\ ~BufferOverrun


-----------------------------------------------------------------------------
(* C24: deduplication of the written book.                                 *)

SamePair(a, b) == a.key = b.key /\ a.move = b.move

(* All records of one (key, move) stand next to each other in t.           *)
PairsAdjacent(t) ==
    \A i, j \in 1..Len(t) :
        (i < j /\ SamePair(t[i], t[j]))
            => \A k \in i..j : SamePair(t[i], t[k])

(* C24: after the full sort and the per-key frequency re-sort all records  *)
(* of the same (key, move) are adjacent in the table, and a book written   *)
(* without `full` holds every distinct (key, move) of the table exactly    *)
(* once and nothing that is not in the table.                              *)
C24_EachPairOnce ==
    /\ pc \in {"sorted", "written"} => PairsAdjacent(kTable)
    /\ (pc = "written" /\ ~full) =>
          /\ \A i \in 1..Len(kTable) :
                Cardinality({n \in 1..Len(file) :
                                SamePair(file[n], kTable[i])}) = 1
          /\ \A n \in 1..Len(file) :
                \E i \in 1..Len(kTable) : file[n] = kTable[i]

(* A key with two moves, one of them recorded twice, has been re-sorted    *)
(* by frequency and written with three distinct pairs from four records.   *)
C24_Witness ==
    /\ pc = "written"
    /\ ~full
    /\ Len(file) = 3
    /\ Len(kTable) = 4
    /\ \E i \in 1..Len(kTable) :
          /\ kTable[i].weight > 1
          /\ \E j \in 1..Len(kTable) :
                j # i /\ SamePair(kTable[i], kTable[j])
          /\ \E j \in 1..Len(kTable) :
                kTable[j].key = kTable[i].key
                   /\ kTable[j].move # kTable[i].move


-----------------------------------------------------------------------------
(* C25: termination of parse_pgn, on every input of at most MaxTail        *)
(* pieces.  The loop is one sequential thread: as long as a pass of the    *)
(* loop or the code after it can run, it does.                             *)

InitLive ==
    /\ chunks \in TailSeqs
    /\ InitWith(Bytes(chunks))

SpecLive == InitLive /\ [][NextParse]_vars /\ WF_vars(NextParse)

(* A pass of the loop that leaves the parser running.                      *)
Pass == Running /\ pc' = "parse"

(* The cursor moves on by exactly one byte.                                *)
OneByte == data' = data + 1

(* OPEN_TAG on `[FEN "`: data += 5 and the ++data of the loop.             *)
FenTagEntered ==
    /\ CurStep = "OPEN_TAG"
    /\ state' = "FEN_TAG"
    /\ data' = data + Len(FenPat) + 1

(* GAME_START on `[Event `: data -= 2 and the ++data of the loop; the      *)
(* cursor is back on the `[`, in HEADER.                                   *)
BackToHeader ==
    /\ CurStep = "GAME_START"
    /\ state = "SKIP_GAME"
    /\ state' = "HEADER"
    /\ data' = data - 1

(* Where GAME_START has put the parser, the next pass is OPEN_TAG and      *)
(* every outcome of it that goes on is in TAG, past the `[`: the `E` is    *)
(* met again in TAG and not in SKIP_GAME.                                  *)
EventTagOpened ==
    /\ ToStep(state', ToToken(input[data' + 1])) = "OPEN_TAG"
    /\ \A q \in OPEN_TAG(Cur') :
          q.pc = "parse" => (q.state = "TAG" /\ q.data = data' + 1)

(* The statement as written: every pass but a GAME_START that matches      *)
(* advances the cursor by one byte.                                        *)
C25_OneByteEveryPass ==
    /\ <>(pc # "parse")
    /\ [][Pass => (OneByte \/ BackToHeader)]_vars

(* C25: parse_pgn terminates on every finite input.  Every pass of the     *)
(* loop advances the cursor by one byte, or by six when OPEN_TAG meets a   *)
(* FEN tag, except a GAME_START that matches `[Event `, which moves it     *)
(* back by one byte net and leaves SKIP_GAME for HEADER; the tag is then   *)
(* opened into TAG, so the same occurrence triggers GAME_START once.       *)
C25_Terminates ==
    /\ <>(pc # "parse")
    /\ [][Pass => (OneByte \/ FenTagEntered \/ BackToHeader)]_vars
    /\ [][(Pass /\ BackToHeader) => EventTagOpened]_vars

(* A file that starts with a game skipped for its Variant tag and goes on  *)
(* with an Event tag has been parsed to its end, GAME_START having         *)
(* returned to HEADER.                                                     *)
C25_Witness ==
    /\ pc = "done"
    /\ Len(chunks) >= 2
    /\ Vocabulary[chunks[1]] = VariantChunk
    /\ Vocabulary[chunks[2]] = EventChunk
    /\ state # "SKIP_GAME"
    /\ data = Len(input)

=============================================================================
